---- MODULE Spec2Model ----
(***************************************************************************)
(* Model of the netipds prefix tree (arena-indexed binary radix tree) and  *)
(* of the PrefixSet / PrefixSetBuilder facade built on it.                 *)
(*                                                                         *)
(* A tree value is a record [nodes, values, panic]:                        *)
(*   nodes  - the node pool; the Go index i is position i+1 of the         *)
(*            sequence, index 0 is the root and the "absent" sentinel;     *)
(*   values - the Go map values, a function from node refs to values;      *)
(*   panic  - TRUE once a Go run-time panic (index out of range, nil       *)
(*            dereference, stack exhaustion) has unwound the operation.    *)
(* Keys are KeyBits wide instead of 64/128 bits; bit 0 is most significant.*)
(***************************************************************************)
EXTENDS Integers, Sequences, FiniteSets, TLC

\* ------------------------------------------------------------------ bounds
KeyBits == 2
StackLimit == 6

\* --------------------------------------------------------------- constants
bitL == 0
bitR == 1
eachBit == <<bitL, bitR>>
ZeroVal == 0
TrueVal == 1
Values == {1, 2}

inv(b) == 1 - b

\* ------------------------------------------------------------ key (key.go)
bitsClearedFrom(c, n) ==
  IF n >= KeyBits THEN c ELSE c - (c % (2 ^ (KeyBits - n)))

isBitSet(c, i) ==
  IF i >= KeyBits THEN 0 ELSE (c \div (2 ^ (KeyBits - 1 - i))) % 2

u64CommonPrefixLen(a, b) ==
  CHOOSE n \in 0..KeyBits :
    /\ bitsClearedFrom(a, n) = bitsClearedFrom(b, n)
    /\ (n = KeyBits \/ bitsClearedFrom(a, n + 1) # bitsClearedFrom(b, n + 1))

newKey(c, o, l) == [content |-> bitsClearedFrom(c, l), offset |-> o, len |-> l]

ZeroKey == [content |-> 0, offset |-> 0, len |-> 0]

isZero(k) == k.len = 0

truncated(k, n) == newKey(k.content, k.offset, n)

rest(k, i) ==
  IF isZero(k) THEN k
  ELSE newKey(k.content, IF i > k.len THEN 0 ELSE i, k.len)

bit(k, i) == isBitSet(k.content, i)

equalFromRoot(k, o) == k.len = o.len /\ k.content = o.content

Min(a, b) == IF a < b THEN a ELSE b

commonPrefixLen(k, o) ==
  Min(Min(o.len, k.len), u64CommonPrefixLen(k.content, o.content))

isPrefixOf(k, o, strict) ==
  IF k.len <= o.len /\ k.content = bitsClearedFrom(o.content, k.len)
  THEN ~(strict /\ equalFromRoot(k, o))
  ELSE FALSE

\* 1 << (64 - len - 1): the shift count is a uint8, so at len = width it
\* wraps to 255 and the shifted bit is lost.
next(k, b) ==
  IF b = bitL
  THEN [content |-> k.content, offset |-> k.len, len |-> k.len + 1]
  ELSE [content |-> IF k.len >= KeyBits THEN k.content
                    ELSE k.content + (1 - isBitSet(k.content, k.len))
                                     * (2 ^ (KeyBits - k.len - 1)),
        offset |-> k.len, len |-> k.len + 1]

\* Prefixes as the facade sees them: an address and a bit count. An address
\* may have bits set beyond the bit count (1.2.3.4/16 is a valid Prefix).
ValidPrefixes == [addr : 0..(2 ^ KeyBits - 1), bits : 0..KeyBits]
ZeroPrefix == [addr |-> 0, bits |-> -1]

keyFromPrefix(p) == newKey(p.addr, 0, p.bits)

toPrefix(k) == [addr |-> k.content, bits |-> k.len]

\* The keys of all valid prefixes.
Keys == {keyFromPrefix(p) : p \in ValidPrefixes}

\* ------------------------------------------------------- tree primitives
EmptyVals == [x \in {} |-> ZeroVal]

emptyNode == [key |-> ZeroKey, hasEntry |-> FALSE, left |-> 0, right |-> 0]

\* deep is set when a call ran past StackLimit nested calls: recursion that
\* does not end.
newTree ==
  [nodes |-> <<emptyNode>>, values |-> EmptyVals, panic |-> FALSE, deep |-> FALSE]

Panic(t) == [t EXCEPT !.panic = TRUE]

Overflow(t) == [t EXCEPT !.panic = TRUE, !.deep = TRUE]

\* A call at depth d that cannot go on: too deep, or an index out of range.
Stop(t, d) == IF d > StackLimit THEN Overflow(t) ELSE Panic(t)

Ret(t, r) == [t |-> t, ref |-> r]

InRange(t, n) == n >= 0 /\ n < Len(t.nodes)

Node(t, n) == t.nodes[n + 1]

Key(t, n) == Node(t, n).key

HasEntry(t, n) == Node(t, n).hasEntry

HasValue(t, n) == n \in DOMAIN t.values

\* newNode as it would be if it returned the index of the node it appends.
newNodeAt(t, k) ==
  LET nn == [key |-> k, hasEntry |-> FALSE, left |-> 0, right |-> 0]
      t1 == [t EXCEPT !.nodes = Append(t.nodes, nn)]
  IN Ret(t1, Len(t1.nodes) - 1)

\* append, then return len(t.nodes): one past the index of the new node
newNode(t, k) ==
  LET nn == [key |-> k, hasEntry |-> FALSE, left |-> 0, right |-> 0]
      t1 == [t EXCEPT !.nodes = Append(t.nodes, nn)]
  IN Ret(t1, Len(t1.nodes))

setValue(t, n, v) ==
  IF t.panic THEN t
  ELSE [t EXCEPT !.values =
          [x \in (DOMAIN t.values) \cup {n} |->
             IF x = n THEN v ELSE t.values[x]]]

\* values[n] = zero value (the key stays in the map); hasEntry = false
clearEntry(t, n) ==
  IF t.panic THEN t
  ELSE IF ~InRange(t, n) THEN Panic(setValue(t, n, ZeroVal))
  ELSE [setValue(t, n, ZeroVal) EXCEPT !.nodes[n + 1].hasEntry = FALSE]

childAt(t, n, b) == IF b = bitR THEN Node(t, n).right ELSE Node(t, n).left

\* the assignment to left is not in an else branch
setChildAt(t, b, n, o) ==
  IF t.panic THEN t
  ELSE IF ~InRange(t, n) THEN Panic(t)
  ELSE LET t1 == IF b = bitR THEN [t EXCEPT !.nodes[n + 1].right = o] ELSE t
       IN [t1 EXCEPT !.nodes[n + 1].left = o]

setChild(t, n, o) ==
  IF t.panic THEN Ret(t, o)
  ELSE IF o = 0 THEN Ret(t, o)
  ELSE IF ~InRange(t, o) THEN Ret(Panic(t), o)
  ELSE LET oKey == Key(t, o)
           b == bit(oKey, oKey.offset)
       IN IF ~InRange(t, n) THEN Ret(Panic(t), o)
          ELSE IF childAt(t, n, b) = 0
               THEN Ret(setChildAt(t, b, n, o), o)
               ELSE Ret(t, o)

\* ChildAt returns (t, false) when the child is absent: the cursor stays
ChildAt(t, n, b) ==
  LET c == childAt(t, n, b)
  IN IF c = 0 THEN [ref |-> n, ok |-> FALSE] ELSE [ref |-> c, ok |-> TRUE]

SetNode(t, n, nd) ==
  IF t.panic THEN t
  ELSE IF ~InRange(t, n) THEN Panic(t)
  ELSE [t EXCEPT !.nodes[n + 1] = nd]

SetChild(t, n, o) == setChild(t, n, o)

\* the bit argument is ignored: the new node has the zero key
NewChildAt(t, n, b) ==
  IF t.panic THEN Ret(t, n)
  ELSE LET r == newNode(t, ZeroKey) IN SetChild(r.t, n, r.ref)

AddChild(t, n, k) ==
  IF t.panic THEN Ret(t, n)
  ELSE LET r == newNode(t, k) IN setChild(r.t, n, r.ref)

SetValue(t, n, v) == setValue(t, n, v)

Value(t, n) ==
  IF HasValue(t, n) THEN [val |-> t.values[n], ok |-> TRUE]
  ELSE [val |-> ZeroVal, ok |-> FALSE]

SetValueFrom(t, n, o, on) ==
  IF t.panic THEN t
  ELSE IF Value(o, on).ok THEN SetValue(t, n, Value(o, on).val) ELSE t

SetOffset(t, n, off) ==
  IF t.panic THEN t
  ELSE IF ~InRange(t, n) THEN Panic(t)
  ELSE [t EXCEPT !.nodes[n + 1].key.offset = off]

\* setChild returns its second argument, so the cursor returned here is
\* positioned at the old node, not at the new parent
InsertParent(t, n, k) ==
  IF t.panic THEN Ret(t, n)
  ELSE LET t1 == SetOffset(t, n, k.len)
       IN IF t1.panic THEN Ret(t1, n)
          ELSE LET r == newNode(t1, k) IN setChild(r.t, r.ref, n)

\* ------------------------------------------------- insertion, compression
RECURSIVE Insert(_, _, _, _, _)
Insert(t, n, k, v, d) ==
  IF t.panic THEN Ret(t, n)
  ELSE IF d > StackLimit \/ ~InRange(t, n) THEN Ret(Stop(t, d), n)
  ELSE
    LET tKey == Key(t, n) IN
    IF equalFromRoot(tKey, k) THEN Ret(SetValue(t, n, v), n)
    ELSE
      LET com == commonPrefixLen(tKey, k) IN
      IF com = tKey.len THEN
        LET c == ChildAt(t, n, bit(k, tKey.len)) IN
        IF c.ok THEN Ret(Insert(t, c.ref, k, v, d + 1).t, n)
        ELSE LET a == AddChild(t, n, rest(k, tKey.len))
                 s == SetValue(a.t, a.ref, v)
             IN Ret(Insert(s, a.ref, k, v, d + 1).t, n)
      ELSE IF com = k.len THEN
        LET p == InsertParent(t, n, k) IN Ret(SetValue(p.t, p.ref, v), p.ref)
      ELSE
        LET p == InsertParent(t, n, truncated(tKey, com))
            a == AddChild(p.t, p.ref, rest(k, com))
        IN Ret(SetValue(a.t, a.ref, v), p.ref)

RECURSIVE InsertLazy(_, _, _, _, _)
InsertLazy(t, n, k, v, d) ==
  IF t.panic THEN Ret(t, n)
  ELSE IF d > StackLimit \/ ~InRange(t, n) THEN Ret(Stop(t, d), n)
  ELSE
    LET tKey == Key(t, n) IN
    IF equalFromRoot(tKey, k) THEN Ret(SetValue(t, n, v), n)
    ELSE IF commonPrefixLen(tKey, k) = tKey.len THEN
      LET b == bit(k, tKey.len)
          c == ChildAt(t, n, b)
      IN IF c.ok THEN Ret(InsertLazy(t, c.ref, k, v, d + 1).t, n)
         ELSE LET a == AddChild(t, n, next(tKey, b))
              IN Ret(InsertLazy(a.t, a.ref, k, v, d + 1).t, n)
    ELSE Ret(t, n)

\* With a single child the absent side's cursor is t itself, so Compress
\* re-enters the same node until the stack is exhausted.
\* Compress as it would be without its first case (no children: return t).
RECURSIVE CompressUnguarded(_, _, _)
CompressUnguarded(t, n, d) ==
  IF t.panic THEN Ret(t, n)
  ELSE IF d > StackLimit \/ ~InRange(t, n) THEN Ret(Stop(t, d), n)
  ELSE
    LET right == ChildAt(t, n, bitR)
    IN CompressUnguarded(SetOffset(t, right.ref, Key(t, n).offset), right.ref, d + 1)

RECURSIVE Compress(_, _, _)
Compress(t, n, d) ==
  IF t.panic THEN Ret(t, n)
  ELSE IF d > StackLimit \/ ~InRange(t, n) THEN Ret(Stop(t, d), n)
  ELSE
    LET left == ChildAt(t, n, bitL)
        right == ChildAt(t, n, bitR)
    IN IF ~left.ok /\ ~right.ok THEN Ret(t, n)
       ELSE IF left.ok
         THEN Compress(SetOffset(t, right.ref, Key(t, n).offset), right.ref, d + 1)
       ELSE IF right.ok
         THEN Compress(SetOffset(t, left.ref, Key(t, n).offset), left.ref, d + 1)
       ELSE Ret(t, n)

\* ------------------------------------------------------------ size, copy
\* Size as it would be if it counted nodes instead of entries.
RECURSIVE SizeAllNodes(_, _)
SizeAllNodes(t, n) ==
  1
  + (IF ChildAt(t, n, bitL).ok THEN SizeAllNodes(t, ChildAt(t, n, bitL).ref) ELSE 0)
  + (IF ChildAt(t, n, bitR).ok THEN SizeAllNodes(t, ChildAt(t, n, bitR).ref) ELSE 0)

RECURSIVE Size(_, _)
Size(t, n) ==
  (IF Node(t, n).hasEntry THEN 1 ELSE 0)
  + (IF ChildAt(t, n, bitL).ok THEN Size(t, ChildAt(t, n, bitL).ref) ELSE 0)
  + (IF ChildAt(t, n, bitR).ok THEN Size(t, ChildAt(t, n, bitR).ref) ELSE 0)

\* one iteration of the loop over eachBit inside CopyFrom
CopyBit(acc, o, src, dstN, b) ==
  IF acc.t.panic THEN acc
  ELSE LET sc == ChildAt(o, src, b) IN
    IF ~sc.ok THEN acc
    ELSE LET dc == ChildAt(acc.t, dstN, b) IN
      IF dc.ok THEN [t |-> acc.t, st |-> Append(acc.st, <<sc.ref, dc.ref>>)]
      ELSE LET nc == NewChildAt(acc.t, dstN, b)
           IN [t |-> nc.t, st |-> Append(acc.st, <<sc.ref, nc.ref>>)]

RECURSIVE CopyLoop(_, _, _)
CopyLoop(t, o, st) ==
  IF t.panic \/ st = <<>> THEN t
  ELSE
    LET c == st[Len(st)]
        st1 == SubSeq(st, 1, Len(st) - 1)
        src == c[1]
        dst == c[2]
    IN IF ~InRange(o, src) THEN Panic(t)
       ELSE
         LET srcN == Node(o, src)
             t1 == SetNode(t, dst, [key |-> srcN.key, hasEntry |-> srcN.hasEntry,
                                    left |-> 0, right |-> 0])
             t2 == IF Value(o, src).ok THEN SetValue(t1, dst, Value(o, src).val)
                   ELSE t1
             a1 == CopyBit([t |-> t2, st |-> st1], o, src, dst, eachBit[1])
             a2 == CopyBit(a1, o, src, dst, eachBit[2])
         IN CopyLoop(a2.t, o, a2.st)

CopyFrom(t, n, o, on) == CopyLoop(t, o, <<<<on, n>>>>)

Copy(o, on) == CopyFrom(newTree, 0, o, on)

\* ------------------------------------------------------ remove, subtract
RECURSIVE Remove(_, _, _, _)
Remove(t, n, k, d) ==
  IF t.panic THEN Ret(t, n)
  ELSE IF d > StackLimit \/ ~InRange(t, n) THEN Ret(Stop(t, d), n)
  ELSE
    LET tKey == Key(t, n) IN
    IF equalFromRoot(k, tKey) THEN
      LET t1 == IF HasEntry(t, n) THEN clearEntry(t, n) ELSE t
          left == ChildAt(t1, n, bitL)
          right == ChildAt(t1, n, bitR)
      IN IF ~left.ok /\ ~right.ok THEN Ret(t1, 0)
         ELSE IF ~left.ok THEN Ret(SetOffset(t1, right.ref, tKey.offset), right.ref)
         ELSE IF ~right.ok THEN Ret(SetOffset(t1, left.ref, tKey.offset), left.ref)
         ELSE Ret(t1, n)
    ELSE IF isPrefixOf(tKey, k, FALSE) THEN
      LET b == bit(k, tKey.len)
          c == ChildAt(t, n, b)
      IN IF c.ok
         THEN LET r == Remove(t, c.ref, k, d + 1)
              IN Ret(setChildAt(r.t, b, n, r.ref), n)
         ELSE Ret(t, n)
    ELSE Ret(t, n)

\* When the child on the path is absent, child is the cursor t itself and
\* insertHole re-enters the same node.
RECURSIVE insertHole(_, _, _, _, _)
insertHole(t, n, k, v, d) ==
  IF t.panic THEN Ret(t, n)
  ELSE IF d > StackLimit \/ ~InRange(t, n) THEN Ret(Stop(t, d), n)
  ELSE
    LET tKey == Key(t, n) IN
    IF equalFromRoot(tKey, k) THEN Ret(t, 0)
    ELSE IF isPrefixOf(tKey, k, FALSE) THEN
      LET t1 == clearEntry(t, n)
          b == bit(k, tKey.len)
          child == ChildAt(t1, n, b)
          sibling == ChildAt(t1, n, inv(b))
          t2 == IF sibling.ok THEN t1
                ELSE LET a == AddChild(t1, n, next(tKey, inv(b)))
                     IN SetValue(a.t, a.ref, v)
          h == insertHole(t2, child.ref, k, v, d + 1)
      IN Ret(SetChild(h.t, n, h.ref).t, n)
    ELSE Ret(t, n)

RECURSIVE SubtractKey(_, _, _, _)
SubtractKey(t, n, k, d) ==
  IF t.panic THEN Ret(t, n)
  ELSE IF d > StackLimit \/ ~InRange(t, n) THEN Ret(Stop(t, d), n)
  ELSE
    LET tKey == Key(t, n) IN
    IF equalFromRoot(tKey, k) \/ isPrefixOf(k, tKey, FALSE) THEN Ret(t, 0)
    ELSE IF isPrefixOf(tKey, k, FALSE) THEN
      LET b == bit(k, tKey.len)
          c == ChildAt(t, n, b)
          t1 == IF c.ok
                THEN LET r == SubtractKey(t, c.ref, rest(k, tKey.len), d + 1)
                     IN setChildAt(r.t, b, n, r.ref)
                ELSE IF Value(t, n).ok
                     THEN insertHole(t, n, k, Value(t, n).val, d + 1).t
                     ELSE t
      IN IF t1.panic THEN Ret(t1, n)
         ELSE LET tn == Node(t1, n)
              IN IF tn.right = 0 /\ tn.left = 0 /\ ~tn.hasEntry
                 THEN Ret(t1, 0) ELSE Ret(t1, n)
    ELSE Ret(t, n)

RECURSIVE SubtractTree(_, _, _, _, _)
\* one iteration of the loop over eachBit inside SubtractTree
SubtractBit(t, n, o, on, b, d) ==
  IF t.panic THEN t
  ELSE LET tChild == ChildAt(t, n, b)
           oChild == ChildAt(o, on, b)
       IN IF oChild.ok
          THEN LET r == SubtractTree(t, tChild.ref, o, oChild.ref, d + 1)
               IN setChildAt(r.t, b, n, r.ref)
          ELSE t

SubtractTree(t, n, o, on, d) ==
  IF t.panic THEN Ret(t, n)
  ELSE IF d > StackLimit \/ ~InRange(t, n) \/ ~InRange(o, on) THEN Ret(Stop(t, d), n)
  ELSE
    LET tKey == Key(t, n)
        oKey == Key(o, on)
    IN IF Node(o, on).hasEntry /\ isPrefixOf(oKey, tKey, FALSE) THEN Ret(t, 0)
       ELSE
         LET t1 == IF Node(o, on).hasEntry /\ isPrefixOf(tKey, oKey, FALSE)
                      /\ Value(t, n).ok
                   THEN insertHole(t, n, oKey, Value(t, n).val, d + 1).t
                   ELSE t
             t2 == SubtractBit(t1, n, o, on, eachBit[1], d)
             t3 == SubtractBit(t2, n, o, on, eachBit[2], d)
         IN Ret(t3, n)

\* ------------------------------------------------------- merge, intersect
IsEmpty(t, n) ==
  LET nd == Node(t, n) IN isZero(nd.key) /\ nd.left = 0 /\ nd.right = 0

RECURSIVE MergeTree(_, _, _, _, _)
\* one iteration of the loop over eachBit inside MergeTree
MergeBit(t, n, o, on, b, d) ==
  IF t.panic THEN t
  ELSE LET oChild == ChildAt(o, on, b) IN
    IF ~oChild.ok THEN t
    ELSE LET tChild == ChildAt(t, n, b)
             r == MergeTree(t, tChild.ref, o, oChild.ref, d + 1)
         IN SetChild(r.t, n, r.ref).t

MergeTree(t, n, o, on, d) ==
  IF t.panic THEN Ret(t, n)
  ELSE IF d > StackLimit \/ ~InRange(t, n) \/ ~InRange(o, on) THEN Ret(Stop(t, d), n)
  ELSE IF IsEmpty(o, on) THEN Ret(t, n)
  ELSE
    LET tKey == Key(t, n)
        oKey == Key(o, on)
    IN IF equalFromRoot(tKey, oKey) THEN
         LET t1 == IF ~HasEntry(t, n) THEN SetValueFrom(t, n, o, on) ELSE t
             t2 == MergeBit(t1, n, o, on, eachBit[1], d)
             t3 == MergeBit(t2, n, o, on, eachBit[2], d)
         IN Ret(t3, n)
       ELSE
         LET com == commonPrefixLen(tKey, oKey) IN
         IF com = tKey.len THEN
           LET tChild == ChildAt(t, n, bit(oKey, tKey.len)) IN
           IF tChild.ok
           THEN LET r == MergeTree(t, tChild.ref, o, on, d + 1)
                IN Ret(SetChild(r.t, n, r.ref).t, n)
           ELSE Ret(SetOffset(CopyFrom(t, tChild.ref, o, on), tChild.ref, tKey.len), n)
         ELSE IF com = oKey.len THEN
           LET p == InsertParent(t, n, oKey)
               s == SetValueFrom(p.t, p.ref, o, on)
           IN MergeTree(s, p.ref, o, on, d + 1)
         ELSE
           LET p == InsertParent(t, n, truncated(tKey, com))
               a == AddChild(p.t, p.ref, rest(oKey, com))
           IN Ret(SetValueFrom(a.t, a.ref, o, on), p.ref)

RECURSIVE intersectTreeImpl(_, _, _, _, _, _, _)
\* one iteration of the loop over eachBit inside intersectTreeImpl
IntersectBit(t, n, o, on, tPathHasEntry, oPathHasEntry, b, d) ==
  IF t.panic THEN t
  ELSE
    LET tChild == ChildAt(t, n, b)
        oChild == ChildAt(o, on, b)
    IN IF ~tChild.ok /\ oChild.ok /\ (HasEntry(t, n) \/ tPathHasEntry)
       THEN CopyFrom(t, tChild.ref, o, oChild.ref)
       ELSE IF tChild.ok /\ ~oChild.ok /\ ~(HasEntry(o, on) \/ oPathHasEntry)
       THEN SetNode(t, tChild.ref, emptyNode)
       ELSE IF tChild.ok /\ oChild.ok
       THEN LET r == intersectTreeImpl(t, tChild.ref, o, oChild.ref,
                                       HasEntry(t, n) \/ tPathHasEntry,
                                       HasEntry(o, on) \/ oPathHasEntry, d + 1)
            IN SetChild(r.t, n, r.ref).t
       ELSE t

intersectTreeImpl(t, n, o, on, tPathHasEntry, oPathHasEntry, d) ==
  IF t.panic THEN Ret(t, n)
  ELSE IF d > StackLimit \/ ~InRange(t, n) \/ ~InRange(o, on) THEN Ret(Stop(t, d), n)
  ELSE IF IsEmpty(o, on) THEN Ret(SetNode(t, n, emptyNode), n)
  ELSE
    LET tKey == Key(t, n)
        oKey == Key(o, on)
    IN IF equalFromRoot(tKey, oKey) THEN
         LET clear == HasEntry(t, n) /\ ~(HasEntry(o, on) \/ oPathHasEntry)
             t1 == IF clear THEN clearEntry(t, n) ELSE t
             tp == tPathHasEntry \/ clear
             t2 == IntersectBit(t1, n, o, on, tp, oPathHasEntry, eachBit[1], d)
             t3 == IntersectBit(t2, n, o, on, tp, oPathHasEntry, eachBit[2], d)
         IN Ret(t3, n)
       ELSE
         LET com == commonPrefixLen(tKey, oKey) IN
         IF com = tKey.len THEN
           LET t0 == IF HasEntry(t, n) /\ ~oPathHasEntry THEN clearEntry(t, n) ELSE t
               t1 == IF HasEntry(t, n) /\ Value(o, on).ok
                     THEN Insert(t0, n, oKey, Value(o, on).val, d + 1).t
                     ELSE t0
           IN IF t1.panic THEN Ret(t1, n)
              ELSE
                LET b == bit(oKey, com)
                    tFollow == ChildAt(t1, n, b)
                    tRemove == ChildAt(t1, n, inv(b))
                    t2 == IF tFollow.ok
                          THEN LET r == intersectTreeImpl(t1, tFollow.ref, o, on,
                                          HasEntry(t1, n) \/ tPathHasEntry,
                                          HasEntry(o, on) \/ oPathHasEntry, d + 1)
                               IN SetChild(r.t, n, r.ref).t
                          ELSE t1
                    t3 == IF ~oPathHasEntry THEN SetNode(t2, tRemove.ref, emptyNode)
                          ELSE t2
                IN Ret(t3, n)
         ELSE IF com = oKey.len THEN
           LET oFollow == ChildAt(o, on, bit(tKey, com)) IN
           IF oFollow.ok
           THEN LET r == intersectTreeImpl(t, n, o, oFollow.ref,
                                           HasEntry(t, n) \/ tPathHasEntry,
                                           HasEntry(o, on) \/ oPathHasEntry, d + 1)
                IN Ret(SetChild(r.t, n, r.ref).t, n)
           ELSE Ret(t, n)
         ELSE Ret(SetNode(t, n, emptyNode), n)

IntersectTree(t, n, o, on) == intersectTreeImpl(t, n, o, on, FALSE, FALSE, 0)

\* ------------------------------------------------------------------ walk
\* The callbacks handed to walk, by the method that passes them. a is the
\* record [m, k, strict, size]; i counts the entries seen before node n.
fn(a, t, n, i) ==
  CASE a.m = "Prefixes" -> (i + (IF HasEntry(t, n) THEN 1 ELSE 0)) >= a.size
    [] a.m = "PrefixesCompact" -> HasEntry(t, n)
    [] a.m = "Encompasses" -> isPrefixOf(Key(t, n), a.k, a.strict) /\ HasEntry(t, n)
    [] a.m = "RootOf" -> isPrefixOf(Key(t, n), a.k, a.strict) /\ HasEntry(t, n)
    [] a.m = "ParentOf" -> FALSE
    [] a.m = "Filter" -> FALSE
    [] a.m = "DescendantsOf" -> isPrefixOf(a.k, Key(t, n), FALSE)
    [] a.m = "AncestorsOf" -> ~isPrefixOf(Key(t, n), a.k, FALSE)
    [] a.m = "OverlapsKey" ->
         /\ HasEntry(t, n)
         /\ (isPrefixOf(Key(t, n), a.k, FALSE) \/ isPrefixOf(a.k, Key(t, n), FALSE))
    [] OTHER -> FALSE

pathNext(t, n, path) == ChildAt(t, n, bit(path, Key(t, n).len))

\* The for loop of walk: it is left either by the return inside it
\* (stopped) or when pathNext reports ok = false.
RECURSIVE walkPath(_, _, _, _, _)
walkPath(t, n, path, a, i) ==
  LET called == ~isZero(Key(t, n))
      i1 == i + (IF called /\ HasEntry(t, n) THEN 1 ELSE 0)
      here == IF called THEN <<n>> ELSE <<>>
  IN IF called /\ fn(a, t, n, i)
     THEN [seq |-> here, stopped |-> TRUE, ok |-> TRUE, at |-> n, i |-> i1]
     ELSE LET c == pathNext(t, n, path)
          IN IF ~c.ok
             THEN [seq |-> here, stopped |-> FALSE, ok |-> FALSE, at |-> n, i |-> i1]
             ELSE LET r == walkPath(t, c.ref, path, a, i1)
                  IN [r EXCEPT !.seq = here \o r.seq]

\* The stack loop of walk that visits all children.
RECURSIVE walkAll(_, _, _, _)
walkAll(t, st, a, i) ==
  IF st = <<>> THEN <<>>
  ELSE
    LET n == st[Len(st)]
        st1 == SubSeq(st, 1, Len(st) - 1)
        called == ~isZero(Key(t, n))
        stop == called /\ fn(a, t, n, i)
        i1 == i + (IF called /\ HasEntry(t, n) THEN 1 ELSE 0)
        right == ChildAt(t, n, bitR)
        left == ChildAt(t, n, bitL)
        st2 == IF Key(t, n).len < KeyBits /\ ~stop
               THEN (IF right.ok THEN st1 \o <<right.ref>> ELSE st1)
                    \o (IF left.ok THEN <<left.ref>> ELSE <<>>)
               ELSE st1
    IN (IF called THEN <<n>> ELSE <<>>) \o walkAll(t, st2, a, i1)

\* The nodes fn is called on, in order.
walk(t, path, a) ==
  LET p == walkPath(t, 0, path, a, 0)
  IN IF p.stopped THEN p.seq
     ELSE IF ~p.ok THEN p.seq
     ELSE p.seq \o walkAll(t, <<p.at>>, a, p.i)

Arg(m, k, strict, size) == [m |-> m, k |-> k, strict |-> strict, size |-> size]

Last(s) == s[Len(s)]

\* ---------------------------------------------------------------- queries
RECURSIVE Get(_, _, _)
Get(t, n, k) ==
  LET tKey == Key(t, n) IN
  IF ~isZero(tKey) /\ tKey.len >= k.len
  THEN IF equalFromRoot(tKey, k) /\ HasEntry(t, n) THEN Value(t, n)
       ELSE [val |-> ZeroVal, ok |-> FALSE]
  ELSE LET c == pathNext(t, n, k)
       IN IF c.ok THEN Get(t, c.ref, k) ELSE [val |-> ZeroVal, ok |-> FALSE]

\* Contains with the presence of a value as the test, the root included.
RECURSIVE ContainsValue(_, _, _)
ContainsValue(t, n, k) ==
  LET tKey == Key(t, n) IN
  IF equalFromRoot(tKey, k) /\ HasValue(t, n) THEN TRUE
  ELSE LET c == pathNext(t, n, k)
       IN IF c.ok THEN ContainsValue(t, c.ref, k) ELSE FALSE

RECURSIVE Contains(_, _, _)
Contains(t, n, k) ==
  LET tKey == Key(t, n) IN
  IF ~isZero(tKey) /\ equalFromRoot(tKey, k) /\ HasEntry(t, n) THEN TRUE
  ELSE LET c == pathNext(t, n, k)
       IN IF c.ok THEN Contains(t, c.ref, k) ELSE FALSE

\* ret is assigned on every call of fn, so it is the value at the last node
Encompasses(t, k, strict) ==
  LET a == Arg("Encompasses", k, strict, 0)
      vis == walk(t, k, a)
  IN vis # <<>> /\ fn(a, t, Last(vis), 0)

NotFound == [key |-> ZeroKey, val |-> ZeroVal, ok |-> FALSE]

\* The position in vis of the last node the callback of RootOf / ParentOf
\* assigned its results at (0 when there is none).
lastHit(t, vis, k, strict) ==
  LET hit == {j \in 1..Len(vis) :
                isPrefixOf(Key(t, vis[j]), k, strict) /\ HasEntry(t, vis[j])}
  IN IF hit = {} THEN 0 ELSE CHOOSE x \in hit : \A y \in hit : y <= x

\* ok is the presence of the node in the values map
RootOf(t, k, strict) ==
  LET vis == walk(t, k, Arg("RootOf", k, strict, 0))
      j == lastHit(t, vis, k, strict)
  IN IF j = 0 THEN NotFound
     ELSE [key |-> Key(t, vis[j]), val |-> Value(t, vis[j]).val,
           ok |-> Value(t, vis[j]).ok]

ParentOf(t, k, strict) ==
  LET vis == walk(t, k, Arg("ParentOf", k, strict, 0))
      j == lastHit(t, vis, k, strict)
  IN IF j = 0 THEN NotFound
     ELSE [key |-> Key(t, vis[j]), val |-> Value(t, vis[j]).val,
           ok |-> Value(t, vis[j]).ok]

\* ret is only ever set to true
OverlapsKey(t, k) ==
  LET a == Arg("OverlapsKey", k, FALSE, 0)
      vis == walk(t, k, a)
  IN \E j \in 1..Len(vis) : fn(a, t, vis[j], 0)

\* the loop over the keys Filter collected
RECURSIVE FilterRemove(_, _, _)
FilterRemove(t, n, remove) ==
  IF remove = <<>> THEN t
  ELSE FilterRemove(Remove(t, n, remove[1], 0).t, n, SubSeq(remove, 2, Len(remove)))

\* the callback collects the key of every node walk visits that o does
\* not encompass, entry or not
Filter(t, n, o) ==
  IF t.panic THEN t
  ELSE LET vis == walk(t, ZeroKey, Arg("Filter", ZeroKey, FALSE, 0))
           rem == SelectSeq(vis, LAMBDA x : ~Encompasses(o, Key(t, x), FALSE))
       IN FilterRemove(t, n, [j \in 1..Len(rem) |-> Key(t, rem[j])])

\* res has length size; slots fn never fills keep the zero Prefix
Prefixes(t, size) ==
  LET vis == walk(t, ZeroKey, Arg("Prefixes", ZeroKey, FALSE, size))
      ent == SelectSeq(vis, LAMBDA n : HasEntry(t, n))
  IN [j \in 1..size |->
        IF j <= Len(ent) THEN toPrefix(Key(t, ent[j])) ELSE ZeroPrefix]

PrefixesCompact(t) ==
  LET vis == walk(t, ZeroKey, Arg("PrefixesCompact", ZeroKey, FALSE, 0))
      ent == SelectSeq(vis, LAMBDA n : HasEntry(t, n))
  IN [j \in 1..Len(ent) |-> toPrefix(Key(t, ent[j]))]

NilTree == [nodes |-> <<>>, values |-> EmptyVals, panic |-> TRUE, deep |-> FALSE]

\* ret stays the zero cursor (nil tree) unless fn finds a node under k
DescendantsOf(t, k, strict) ==
  LET a == Arg("DescendantsOf", k, strict, 0)
      vis == walk(t, k, a)
  IN IF vis # <<>> /\ fn(a, t, Last(vis), 0)
     THEN LET n == Last(vis)
              c == SetOffset(Copy(t, n), 0, 0)
          IN IF ~(strict /\ equalFromRoot(Key(t, n), k))
             THEN SetValueFrom(c, 0, t, n) ELSE c
     ELSE NilTree

RECURSIVE ancestorsInsert(_, _, _, _, _)
ancestorsInsert(ret, t, vis, k, strict) ==
  IF vis = <<>> THEN ret
  ELSE LET n == Head(vis) IN
    IF ~isPrefixOf(Key(t, n), k, FALSE) THEN ret
    ELSE LET r1 == IF HasEntry(t, n) /\ ~(strict /\ equalFromRoot(Key(t, n), k))
                      /\ Value(t, n).ok
                   THEN Insert(ret, 0, Key(t, n), Value(t, n).val, 0).t
                   ELSE ret
         IN ancestorsInsert(r1, t, Tail(vis), k, strict)

AncestorsOf(t, k, strict) ==
  ancestorsInsert(newTree, t, walk(t, k, Arg("AncestorsOf", k, strict, 0)), k, strict)

\* ------------------------------------------------------------ the facade
\* lazy    - PrefixSetBuilder.Lazy
\* tree    - the builder's tree
\* entries - the prefixes (as keys) the caller has stored, with the value
\*           of the latest Add / Set, while only Add / Set have been called
\* ops     - "sets" while only Add / Set have been called; "mixed" once
\*           any other builder operation has been called, and entries is
\*           no longer kept
\* view    - the PrefixSet last returned by PrefixSet(), or NoView
\* last    - the outcome of the last builder call: "ok", "error" (the
\*           call returned an error), "panic", or "overflow" (the call
\*           recursed without end)
\* arg     - whether the prefix the caller passed to the last builder call
\*           was a valid one (TRUE for a call that takes no prefix)
VARIABLES lazy, tree, entries, ops, view, last, arg

vars == <<lazy, tree, entries, ops, view, last, arg>>

MaxNodes == 2

NoView == [none |-> TRUE]
Panicked == [panicked |-> TRUE]

Prefix == ValidPrefixes \cup {ZeroPrefix}

\* IsValid as it would be if it looked at the address only.
IsValidAddr(p) == p.addr >= 0

IsValid(p) == p.bits >= 0

\* The state a caller that recovers from a panic is left with.
Recover(t) == [t EXCEPT !.panic = FALSE, !.deep = FALSE]

Outcome(t) == IF t.deep THEN "overflow" ELSE IF t.panic THEN "panic" ELSE "ok"

NoEntries == [x \in {} |-> ZeroVal]

Put(e, k, v) == [x \in (DOMAIN e) \cup {k} |-> IF x = k THEN v ELSE e[x]]

Drop(e, k) == [x \in (DOMAIN e) \ {k} |-> e[x]]

Init ==
  /\ lazy \in BOOLEAN
  /\ tree = newTree
  /\ entries = NoEntries
  /\ ops = "sets"
  /\ view = NoView
  /\ last = "ok"
  /\ arg = TRUE

\* tree.insert / tree.insertLazy at the root, as the builder calls them
inserted(p, v) ==
  IF lazy THEN InsertLazy(tree, 0, keyFromPrefix(p), v, 0).t
  ELSE Insert(tree, 0, keyFromPrefix(p), v, 0).t

Add(p) ==
  IF ~IsValid(p)
  THEN /\ last' = "error"
       /\ UNCHANGED <<lazy, tree, entries, ops, view>>
  ELSE \E r \in {inserted(p, TrueVal)} :
         /\ Len(r.nodes) <= MaxNodes
         /\ tree' = Recover(r)
         /\ entries' = IF ops = "sets"
                       THEN Put(entries, keyFromPrefix(p), TrueVal)
                       ELSE entries
         /\ last' = Outcome(r)
         /\ UNCHANGED <<lazy, ops, view>>

Set(p, v) ==
  IF ~IsValid(p)
  THEN /\ last' = "error"
       /\ UNCHANGED <<lazy, tree, entries, ops, view>>
  ELSE \E r \in {inserted(p, v)} :
         /\ Len(r.nodes) <= MaxNodes
         /\ tree' = Recover(r)
         /\ entries' = IF ops = "sets"
                       THEN Put(entries, keyFromPrefix(p), v)
                       ELSE entries
         /\ last' = Outcome(r)
         /\ UNCHANGED <<lazy, ops, view>>

RemoveP(p) ==
  IF ~IsValid(p)
  THEN /\ last' = "error"
       /\ UNCHANGED <<lazy, tree, entries, ops, view>>
  ELSE \E r \in {Remove(tree, 0, keyFromPrefix(p), 0).t} :
         /\ tree' = Recover(r)
         /\ entries' = NoEntries
         /\ ops' = "mixed"
         /\ last' = Outcome(r)
         /\ UNCHANGED <<lazy, view>>

SubtractPrefix(p) ==
  IF ~IsValid(p)
  THEN /\ last' = "error"
       /\ UNCHANGED <<lazy, tree, entries, ops, view>>
  ELSE \E r \in {SubtractKey(tree, 0, keyFromPrefix(p), 0).t} :
         /\ Len(r.nodes) <= MaxNodes
         /\ tree' = Recover(r)
         /\ ops' = "mixed"
         /\ entries' = NoEntries
         /\ last' = Outcome(r)
         /\ UNCHANGED <<lazy, view>>

\* PrefixSetBuilder.PrefixSet on a builder holding tree t
Freeze(t, lz) ==
  LET c == Copy(t, 0)
      z == IF lz THEN Compress(c, 0, 0).t ELSE c
  IN IF z.panic THEN Panicked ELSE [tree |-> z, size |-> Size(z, 0)]

\* The PrefixSet a fresh, non-lazy builder returns after Add(q).
OperandOf(q) ==
  IF ~IsValid(q) THEN Freeze(newTree, FALSE)
  ELSE Freeze(Recover(Insert(newTree, 0, keyFromPrefix(q), TrueVal, 0).t), FALSE)

OperandEntries(q) == IF IsValid(q) THEN {keyFromPrefix(q)} ELSE {}

IsView(x) == x # NoView /\ x # Panicked

\* The PrefixSets a builder operation can be handed as its operand o: one
\* built by another builder, or the view frozen from this builder.
Fresh == {x \in {OperandOf(q) : q \in Prefix} : IsView(x)}

Operands == Fresh \cup (IF IsView(view) THEN {view} ELSE {})

\* Subtract as it would be if the PrefixSet handed out earlier shared the
\* builder's tree instead of holding a copy of it.
SubtractShared(o) ==
  \E r \in {SubtractTree(tree, 0, o.tree, 0, 0).t} :
    /\ Len(r.nodes) <= MaxNodes
    /\ tree' = Recover(r)
    /\ ops' = "mixed"
    /\ entries' = NoEntries
    /\ last' = Outcome(r)
    /\ view' = IF IsView(view) THEN [view EXCEPT !.tree = Recover(r)] ELSE view
    /\ UNCHANGED lazy

Subtract(o) ==
  \E r \in {SubtractTree(tree, 0, o.tree, 0, 0).t} :
    /\ Len(r.nodes) <= MaxNodes
    /\ tree' = Recover(r)
    /\ ops' = "mixed"
    /\ entries' = NoEntries
    /\ last' = Outcome(r)
    /\ UNCHANGED <<lazy, view>>

Intersect(o) ==
  \E r \in {IntersectTree(tree, 0, o.tree, 0).t} :
    /\ Len(r.nodes) <= MaxNodes
    /\ tree' = Recover(r)
    /\ ops' = "mixed"
    /\ entries' = NoEntries
    /\ last' = Outcome(r)
    /\ UNCHANGED <<lazy, view>>

Merge(o) ==
  \E r \in {MergeTree(tree, 0, o.tree, 0, 0).t} :
    /\ Len(r.nodes) <= MaxNodes
    /\ tree' = Recover(r)
    /\ ops' = "mixed"
    /\ entries' = NoEntries
    /\ last' = Outcome(r)
    /\ UNCHANGED <<lazy, view>>

FilterP(o) ==
  \E r \in {Filter(tree, 0, o.tree)} :
    /\ tree' = Recover(r)
    /\ ops' = "mixed"
    /\ entries' = NoEntries
    /\ last' = Outcome(r)
    /\ UNCHANGED <<lazy, view>>

PrefixSet ==
  \E f \in {Freeze(tree, lazy)} :
    /\ view' = f
    /\ last' = IF f = Panicked THEN "panic" ELSE "ok"
    /\ UNCHANGED <<lazy, tree, entries, ops>>

\* PrefixSet.DescendantsOf / DescendantsOfStrict on the PrefixSet x: the
\* facade dereferences the tree it gets back, and a nil tree panics
DescendantsOfP(x, p, strict) ==
  LET t == DescendantsOf(x.tree, keyFromPrefix(p), strict)
  IN IF t.panic THEN Panicked ELSE [tree |-> t, size |-> Size(t, 0)]

\* PrefixSet.AncestorsOf / AncestorsOfStrict on the PrefixSet x
AncestorsOfP(x, p, strict) ==
  LET t == AncestorsOf(x.tree, keyFromPrefix(p), strict)
  IN IF t.panic THEN Panicked ELSE [tree |-> t, size |-> Size(t, 0)]

Next ==
  \/ \E p \in Prefix : Add(p) /\ arg' = (p \in ValidPrefixes)
  \/ \E p \in Prefix, v \in Values : Set(p, v) /\ arg' = (p \in ValidPrefixes)
  \/ \E p \in Prefix : RemoveP(p) /\ arg' = (p \in ValidPrefixes)
  \/ \E p \in Prefix : SubtractPrefix(p) /\ arg' = (p \in ValidPrefixes)
  \/ \E o \in Operands : Subtract(o) /\ arg' = TRUE
  \/ \E o \in Operands : Intersect(o) /\ arg' = TRUE
  \/ \E o \in Operands : Merge(o) /\ arg' = TRUE
  \/ \E o \in Operands : FilterP(o) /\ arg' = TRUE
  \/ PrefixSet /\ arg' = TRUE

Spec == Init /\ [][Next]_vars

\* ------------------------------------------------------------ properties
\* The PrefixSet that PrefixSet() returns in the current state.
FV == Freeze(tree, lazy)

\* entries is kept, and holds no prefix of length 0: the root never carries
\* an entry, so the properties are stated for prefixes of non-zero length.
Plain == ops = "sets" /\ \A e \in DOMAIN entries : e.len > 0

Stored == DOMAIN entries

NZKeys == {k \in Keys : k.len > 0}

Absent == [val |-> ZeroVal, ok |-> FALSE]

\* The nodes reachable from the root.
RECURSIVE reach(_, _, _)
reach(t, seen, todo) ==
  IF todo = {} THEN seen
  ELSE LET n == CHOOSE x \in todo : TRUE
           kids == {Node(t, n).left, Node(t, n).right} \ ({0} \cup seen \cup {n})
       IN reach(t, seen \cup {n}, (todo \ {n}) \cup kids)

EntryNodes(t) == {n \in reach(t, {}, {0}) : HasEntry(t, n)}

InSeq(x, sq) == \E j \in 1..Len(sq) : sq[j] = x

\* C1: on a non-lazy builder, after any sequence of Set / Add calls with
\* valid prefixes, the frozen view contains every prefix that was set and
\* Get returns the value of its latest Set; a prefix never set is not
\* contained and Get returns (zero, false).
C1_SetThenGet ==
  (~lazy /\ ops = "sets" /\ Plain) =>
    /\ IsView(FV)
    /\ \A k \in NZKeys :
         IF k \in Stored
         THEN /\ Contains(FV.tree, 0, k)
              /\ Get(FV.tree, 0, k) = [val |-> entries[k], ok |-> TRUE]
         ELSE /\ ~Contains(FV.tree, 0, k)
              /\ Get(FV.tree, 0, k) = Absent

Derived ==
  {DescendantsOfP(view, p, strict) : p \in ValidPrefixes, strict \in BOOLEAN}
    \cup {AncestorsOfP(view, p, strict) : p \in ValidPrefixes, strict \in BOOLEAN}

C4_Encompasses ==
  Plain =>
    /\ IsView(FV)
    /\ \A k \in Keys, strict \in BOOLEAN :
         Encompasses(FV.tree, k, strict) <=>
           \E e \in Stored : isPrefixOf(e, k, strict)

\* The stored prefixes of k.
PrefixesOf(k, strict) == {e \in Stored : isPrefixOf(e, k, strict)}

\* C5: ParentOf(k, strict) is found exactly when some stored prefix e is a
\* (strict) prefix of k, and then returns the longest such e with its value.
C5_ParentOf ==
  Plain =>
    /\ IsView(FV)
    /\ \A k \in Keys, strict \in BOOLEAN :
         LET r == ParentOf(FV.tree, k, strict)
             c == PrefixesOf(k, strict)
         IN /\ r.ok <=> c # {}
            /\ r.ok => /\ toPrefix(r.key) \in {toPrefix(e) : e \in c}
                       /\ \A e \in c : e.len <= r.key.len
                       /\ \A e \in c : e.len = r.key.len => r.val = entries[e]

\* C6: RootOf(k, strict) is found exactly when some stored prefix e is a
\* (strict) prefix of k, and then returns the shortest such e; otherwise it
\* returns zero values and false.
C6_RootOf ==
  Plain =>
    /\ IsView(FV)
    /\ \A k \in Keys, strict \in BOOLEAN :
         LET r == RootOf(FV.tree, k, strict)
             c == PrefixesOf(k, strict)
         IN /\ r.ok <=> c # {}
            /\ r.ok => /\ toPrefix(r.key) \in {toPrefix(e) : e \in c}
                       /\ \A e \in c : r.key.len <= e.len
            /\ ~r.ok => r = NotFound

\* C7: OverlapsPrefix(k) is true exactly when some stored prefix e is a
\* prefix of k or has k as a prefix.
C7_OverlapsPrefix ==
  Plain =>
    /\ IsView(FV)
    /\ \A k \in Keys :
         OverlapsKey(FV.tree, k) <=>
           \E e \in Stored : isPrefixOf(e, k, FALSE) \/ isPrefixOf(k, e, FALSE)

\* The shape of the tree below the root: what is reachable, with keys,
\* entries and children.
Shape(t) == [n \in reach(t, {}, {0}) |-> Node(t, n)]

\* C8: Remove(p) removes only p: afterwards p is not contained and every
\* other stored prefix is still contained with its value; and adding then
\* removing a prefix that was not stored leaves the tree shape as it was.
C8_RemoveExact ==
  [][\A p \in ValidPrefixes :
       (~lazy /\ Plain /\ RemoveP(p)) =>
         LET k == keyFromPrefix(p)
             V == Freeze(tree', lazy)
             a == Recover(Insert(tree, 0, k, TrueVal, 0).t)
             b == Recover(Remove(a, 0, k, 0).t)
         IN /\ IsView(V)
            /\ ~Contains(V.tree, 0, k)
            /\ \A e \in Stored \ {k} :
                 /\ Contains(V.tree, 0, e)
                 /\ Get(V.tree, 0, e) = [val |-> entries[e], ok |-> TRUE]
            /\ k \notin Stored => Shape(b) = Shape(tree)]_vars

\* The sibling of q's ancestor of length i: q's first i - 1 bits followed
\* by the complement of q's bit i - 1.
SiblingAt(q, i) ==
  LET a == newKey(q.content, 0, i)
  IN [a EXCEPT !.content = IF bit(a, i - 1) = 1
                           THEN @ - 2 ^ (KeyBits - i)
                           ELSE @ + 2 ^ (KeyBits - i)]

Siblings(p, q) == {SiblingAt(q, i) : i \in (p.len + 1)..q.len}

\* C9: with p stored, q strictly under p and no other stored prefix
\* overlapping q or under p, SubtractPrefix(q) leaves no prefix of q, q
\* itself or descendant of q, and under p exactly the len(q) - len(p)
\* siblings along the path from p to q.
C9_SubtractPrefixHole ==
  [][\A p \in ValidPrefixes, e \in Stored :
       LET q == keyFromPrefix(p)
           V == Freeze(tree', lazy)
       IN (/\ ~lazy /\ Plain /\ SubtractPrefix(p)
           /\ isPrefixOf(e, q, TRUE)
           /\ \A o \in Stored \ {e} :
                ~isPrefixOf(o, q, FALSE) /\ ~isPrefixOf(e, o, FALSE)) =>
          /\ IsView(V)
          /\ \A k \in NZKeys :
               (isPrefixOf(k, q, FALSE) \/ isPrefixOf(q, k, FALSE)) =>
                 ~Contains(V.tree, 0, k)
          /\ \A k \in NZKeys :
               isPrefixOf(e, k, FALSE) =>
                 (Contains(V.tree, 0, k) <=> k \in Siblings(e, q))
          /\ Cardinality(Siblings(e, q)) = q.len - e.len]_vars

\* The addresses (keys of full length) a set of prefixes covers.
Addresses == {k \in Keys : k.len = KeyBits}

\* C10: after s.Subtract(o) no entry of s is equal to or under an entry of
\* o, every entry of s that overlaps no entry of o is still there, and s
\* covers exactly the addresses it covered before minus those o covers.
C10_SubtractSet ==
  [][\A p \in ValidPrefixes :
       LET O == {o \in OperandEntries(p) : o.len > 0}
           V == Freeze(tree', lazy)
       IN (~lazy /\ Plain /\ O # {} /\ Subtract(OperandOf(p))) =>
          /\ IsView(V)
          /\ \A k \in NZKeys :
               (\E o \in O : isPrefixOf(o, k, FALSE)) => ~Contains(V.tree, 0, k)
          /\ \A e \in Stored :
               (\A o \in O : ~isPrefixOf(o, e, FALSE) /\ ~isPrefixOf(e, o, FALSE))
                 => Contains(V.tree, 0, e)
          /\ \A a \in Addresses :
               Encompasses(V.tree, a, FALSE) <=>
                 /\ \E e \in Stored : isPrefixOf(e, a, FALSE)
                 /\ ~\E o \in O : isPrefixOf(o, a, FALSE)]_vars

\* The entries handed to the builder whose PrefixSet is the operand
\* OperandOf(p).
OperandSet(p) == {b \in OperandEntries(p) : b.len > 0}

\* C11: after s.Intersect(o) a prefix e is in s exactly when it was in both
\* sets, or was in s with a strict ancestor in o, or was in o with a strict
\* ancestor in s.
C11_IntersectMembership ==
  [][\A p \in ValidPrefixes :
       LET A == Stored
           B == OperandSet(p)
           V == Freeze(tree', lazy)
       IN (Plain /\ B # {} /\ Intersect(OperandOf(p))) =>
          /\ IsView(V)
          /\ \A e \in NZKeys :
               Contains(V.tree, 0, e) <=>
                 \/ e \in A /\ e \in B
                 \/ e \in A /\ \E b \in B : isPrefixOf(b, e, TRUE)
                 \/ e \in B /\ \E a \in A : isPrefixOf(a, e, TRUE)]_vars

\* C12: after s.Merge(o) every entry of s and every entry of o is in s, and
\* s holds nothing else when neither set holds a strict prefix of an entry
\* of the other.
C12_MergeUnion ==
  [][\A p \in ValidPrefixes :
       LET A == Stored
           B == OperandSet(p)
           V == Freeze(tree', lazy)
           apart == /\ \A a \in A, b \in B : ~isPrefixOf(a, b, TRUE)
                    /\ \A a \in A, b \in B : ~isPrefixOf(b, a, TRUE)
       IN (Plain /\ B # {} /\ Merge(OperandOf(p))) =>
          /\ IsView(V)
          /\ \A e \in A \cup B : Contains(V.tree, 0, e)
          /\ apart => \A e \in NZKeys : Contains(V.tree, 0, e) => e \in A \cup B]_vars

\* C13: after s.Filter(o) the entries of s are exactly the entries e it had
\* before with o.Encompasses(e, false), each with the value it had.
C13_FilterKeeps ==
  [][\A p \in ValidPrefixes :
       LET B == OperandSet(p)
           V == Freeze(tree', lazy)
       IN (Plain /\ B # {} /\ FilterP(OperandOf(p))) =>
          /\ IsView(V)
          /\ \A e \in NZKeys :
               Get(V.tree, 0, e) =
                 IF e \in Stored /\ \E b \in B : isPrefixOf(b, e, FALSE)
                 THEN [val |-> entries[e], ok |-> TRUE]
                 ELSE Absent]_vars

\* What Get returns for e on a collection that holds the entries of E with
\* the values the caller stored.
Holds(E, e) == IF e \in E THEN [val |-> entries[e], ok |-> TRUE] ELSE Absent

\* C14: DescendantsOf(k, strict) returns a collection holding exactly the
\* entries e with k.isPrefixOf(e, strict), with their values; when there is
\* no entry under k it returns an empty collection rather than failing.
C14_DescendantsOf ==
  (Plain /\ IsView(FV)) =>
    \A p \in ValidPrefixes, strict \in BOOLEAN :
      LET k == keyFromPrefix(p)
          D == DescendantsOfP(FV, p, strict)
          E == {e \in Stored : isPrefixOf(k, e, strict)}
      IN /\ IsView(D)
         /\ \A e \in NZKeys : Get(D.tree, 0, e) = Holds(E, e)

\* C15: AncestorsOf(k, strict) returns a collection holding exactly the
\* entries e with e.isPrefixOf(k, strict), with their values, and an empty
\* collection when there is none.
C15_AncestorsOf ==
  (Plain /\ IsView(FV)) =>
    \A p \in ValidPrefixes, strict \in BOOLEAN :
      LET k == keyFromPrefix(p)
          D == AncestorsOfP(FV, p, strict)
          E == {e \in Stored : isPrefixOf(e, k, strict)}
      IN /\ IsView(D)
         /\ \A e \in NZKeys : Get(D.tree, 0, e) = Holds(E, e)

\* The stored prefixes that have no strict ancestor among the stored ones.
Outermost == {e \in Stored : ~\E a \in Stored : isPrefixOf(a, e, TRUE)}

\* C16: PrefixesCompact() returns exactly the entries that have no strict
\* ancestor entry in the set, each once.
C16_PrefixesCompact ==
  (Plain /\ IsView(FV)) =>
    LET pc == PrefixesCompact(FV.tree)
    IN /\ \A e \in NZKeys : InSeq(toPrefix(e), pc) <=> e \in Outermost
       /\ Len(pc) = Cardinality(Outermost)

\* The builder with Lazy = lz after the Add / Set calls recorded in e, made
\* on an empty builder.
RECURSIVE AddAll(_, _, _)
AddAll(t, lz, e) ==
  IF DOMAIN e = {} THEN t
  ELSE LET k == CHOOSE x \in DOMAIN e : TRUE
           r == IF lz THEN InsertLazy(t, 0, k, e[k], 0).t
                ELSE Insert(t, 0, k, e[k], 0).t
       IN AddAll(Recover(r), lz, Drop(e, k))

Twin == Freeze(AddAll(newTree, ~lazy, entries), ~lazy)

Untouched == UNCHANGED <<lazy, tree, entries, ops, view>>

\* C18: Add / Set, Remove and SubtractPrefix called with an invalid prefix
\* return an error and leave the builder unchanged; called with a valid
\* prefix they never return an error.
C18_InvalidPrefix ==
  /\ [](last = "error" <=> ~arg)
  /\ [][~arg' => Untouched]_vars

\* A call with an invalid prefix has returned its error on a builder that
\* earlier calls had filled.
C18_Witness ==
  /\ last = "error"
  /\ Stored # {}
  /\ Len(tree.nodes) > 1

Compressed(t) ==
  \A n \in reach(t, {}, {0}) \ {0} :
    ~HasEntry(t, n) => (Node(t, n).left # 0 /\ Node(t, n).right # 0)

At(x, sq) == {j \in 1..Len(sq) : sq[j] = x}

\* C21: with the empty path, walk visits every non-root node exactly once,
\* a node before the nodes under it, so Prefixes() lists every entry
\* exactly once with each prefix before its descendants.
C21_WalkCoverage ==
  (Plain /\ IsView(FV)) =>
    LET t == FV.tree
        vis == walk(t, ZeroKey, Arg("Filter", ZeroKey, FALSE, 0))
        ps == Prefixes(t, FV.size)
    IN /\ \A n \in reach(t, {}, {0}) \ {0} : Cardinality(At(n, vis)) = 1
       /\ \A i, j \in 1..Len(vis) :
            (i < j) => ~isPrefixOf(Key(t, vis[j]), Key(t, vis[i]), TRUE)
       /\ \A e \in Stored : Cardinality(At(toPrefix(e), ps)) = 1
       /\ Len(ps) = Cardinality(Stored)
       /\ \A e, f \in Stored :
            isPrefixOf(e, f, TRUE) =>
              \A i \in At(toPrefix(e), ps), j \in At(toPrefix(f), ps) : i < j

Consistent(t) ==
  \A n \in reach(t, {}, {0}) : Value(t, n).ok <=> HasEntry(t, n)

\* C23: after any sequence of builder operations, for every reachable node
\* a value is present (Value() returns ok) if and only if hasEntry is true,
\* in the builder's tree and in the view frozen from it.
C23_PresenceValue ==
  /\ Consistent(tree)
  /\ IsView(view) => Consistent(view.tree)

\* The nodes of the pool of t.
Pool(t) == 0..(Len(t.nodes) - 1)

\* Every child handle stored in a node of t refers to a node of the pool
\* other than the root, whose key extends the parent's key with the bit of
\* its slot and starts where the parent's key ends; the two children of a
\* node are distinct.
Linked(t) ==
  \A n \in Pool(t) :
    /\ \A b \in {bitL, bitR} :
         LET c == childAt(t, n, b)
         IN c # 0 =>
              /\ InRange(t, c)
              /\ isPrefixOf(Key(t, n), Key(t, c), TRUE)
              /\ bit(Key(t, c), Key(t, n).len) = b
              /\ Key(t, c).offset = Key(t, n).len
    /\ Node(t, n).left # 0 => Node(t, n).left # Node(t, n).right

\* C24: after any sequence of builder operations every child handle refers
\* to an existing node of the pool, never the root, with the key and offset
\* its slot calls for, the two children of a node are distinct, and the
\* root keeps the zero key; this holds for the handle of a node the builder
\* creates to store as a child, and assigning one child slot leaves the
\* other slot unchanged.
C24_TrieStructure ==
  /\ Linked(tree)
  /\ Key(tree, 0) = ZeroKey
  /\ IsView(view) => (Linked(view.tree) /\ Key(view.tree, 0) = ZeroKey)
  /\ \A k \in NZKeys :
       LET r == newNode(tree, k)
       IN r.ref # 0 /\ InRange(r.t, r.ref)
  /\ \A n \in Pool(tree), o \in Pool(tree) \ {0}, b \in {bitL, bitR} :
       childAt(setChildAt(tree, b, n, o), n, inv(b)) = childAt(tree, n, inv(b))

====
